---- MODULE Spec2Model ----
(***************************************************************************)
(* Model of the ingestion and evaluation engine: the manifest parser and   *)
(* URL classifier of src/src/url_class.py, the main loop of src/run.py and *)
(* the license metric of src/src/metrics/calculate_license_score.py.       *)
(*                                                                         *)
(* Strings.  A Python str is modelled as a sequence of atoms.  An atom is  *)
(* either one delimiter character ("/", ":", "?", "#", ",", ".", " ") or a *)
(* run of letters/digits ("huggingface", "co", "tree", ...).  The atoms    *)
(* are chosen so that no atom occurs inside another atom or across the     *)
(* boundary of two atoms ("com" is written "co","m"), hence equality,      *)
(* split, strip and substring tests on the atom sequences agree with the   *)
(* same tests on the characters.                                           *)
(***************************************************************************)
EXTENDS Integers, Sequences, FiniteSets, TLC

VARIABLES
    url,             \* the link handed to the URL classifier
    op,              \* which function under study has been applied ("none" before)
    identity,        \* what parse_huggingface_url returned / raised
    dataset_id,      \* what parse_dataset_url returned / raised
    manifest,        \* the lines of the manifest file (args.target)
    tasks_file,      \* the lines of ./tasks.txt
    pc,              \* where main() is: start, loop, eval, done, failed
    error,           \* what ended the run early ("" when nothing has)
    project_groups,  \* run.py: project_groups
    idx,             \* the position of the for loop in project_groups
    input_dict,      \* run.py: input_dict of the group being evaluated
    status,          \* the metric units of the evaluation: pending, running, done
    scores,          \* the results collected so far, by metric name
    failed,          \* the metrics of this evaluation that raised or returned junk
    evaluated,       \* history: the groups handed to the evaluator, in order
    executed,        \* history: <<group, metric>> for every metric unit started
    emitted,         \* history: the reports passed to build_model_output
    license_info,    \* calculate_license_score: the argument license_info
    verbosity,       \* calculate_license_score: the argument verbosity
    log_queue,       \* calculate_license_score: the put calls the sink fails
    license_score    \* what calculate_license_score returned / raised

urlVars == <<url, op, identity, dataset_id>>

mainVars == <<manifest, tasks_file, pc, error, project_groups, idx, input_dict,
              status, scores, failed, evaluated, executed, emitted>>

licenseVars == <<license_info, verbosity, log_queue, license_score>>

vars == <<urlVars, mainVars, licenseVars>>

(***************************************************************************)
(* Bounds                                                                  *)
(***************************************************************************)
MaxSegs == 5

MaxLines == 3

MaxRunLines == 2

MaxElapsed == 2

(***************************************************************************)
(* Python str helpers                                                      *)
(***************************************************************************)
EmptyStr == <<>>

Whitespace == {" "}

\* s[i:] of Python, i counted from 0
DropFirst(s, n) == IF n >= Len(s) THEN <<>> ELSE SubSeq(s, n + 1, Len(s))

\* s[:i] of Python
TakeFirst(s, n) == IF n <= 0 THEN <<>> ELSE SubSeq(s, 1, IF n > Len(s) THEN Len(s) ELSE n)

\* str.find(c): the first position (1-based) of atom c in s, 0 when absent
Find(s, c) ==
    IF \E i \in 1..Len(s) : s[i] = c
    THEN CHOOSE i \in 1..Len(s) : s[i] = c /\ \A j \in 1..(i - 1) : s[j] # c
    ELSE 0

\* str.strip(chars): drop the leading and the trailing atoms that are in cs
Strip(s, cs) ==
    LET keep == {i \in 1..Len(s) : s[i] \notin cs}
    IN  IF keep = {} THEN <<>>
        ELSE LET lo == CHOOSE i \in keep : \A j \in keep : i <= j
                 hi == CHOOSE i \in keep : \A j \in keep : j <= i
             IN  SubSeq(s, lo, hi)

\* str.split(sep) for a one-character separator: always at least one piece
RECURSIVE Split(_, _)
Split(s, sep) ==
    LET i == Find(s, sep)
    IN  IF i = 0 THEN <<s>>
        ELSE <<SubSeq(s, 1, i - 1)>> \o Split(DropFirst(s, i), sep)

\* needle in s (substring test)
Contains(s, needle) ==
    \E i \in 0..(Len(s) - Len(needle)) : SubSeq(s, i + 1, i + Len(needle)) = needle

\* sep.join(pieces)
RECURSIVE Join(_, _)
Join(pieces, sep) ==
    IF pieces = <<>> THEN <<>>
    ELSE IF Len(pieces) = 1 THEN pieces[1]
    ELSE pieces[1] \o <<sep>> \o Join(Tail(pieces), sep)

(***************************************************************************)
(* urllib.parse.urlparse, as far as url_class.py reads its result: the     *)
(* network location and the path.  The links hold no ";", so the split of  *)
(* the path's parameters leaves the path as it is.                         *)
(***************************************************************************)
Delimiters == {"/", ":", "?", "#", ",", " "}

\* the characters urlsplit accepts in a scheme: letters, digits, "+", "-", "."
IsSchemeAtom(a) == a \notin Delimiters

\* the first character of a scheme must be a letter
StartsWithLetter(a) == a \notin Delimiters /\ a # "."

\* the first position at or after `from` holding one of cs, Len(s)+1 when none
FirstOf(s, cs, from) ==
    IF \E i \in from..Len(s) : s[i] \in cs
    THEN CHOOSE i \in from..Len(s) : s[i] \in cs /\ \A j \in from..(i - 1) : s[j] \notin cs
    ELSE Len(s) + 1

urlparse(u) ==
    LET colon == Find(u, ":")
        hasScheme == /\ colon > 1
                     /\ StartsWithLetter(u[1])
                     /\ \A j \in 1..(colon - 1) : IsSchemeAtom(u[j])
        rest == IF hasScheme THEN DropFirst(u, colon) ELSE u
        hasNetloc == Len(rest) >= 2 /\ rest[1] = "/" /\ rest[2] = "/"
        delim == FirstOf(rest, {"/", "?", "#"}, 3)
        netloc == IF hasNetloc THEN SubSeq(rest, 3, delim - 1) ELSE <<>>
        after == IF hasNetloc THEN DropFirst(rest, delim - 1) ELSE rest
        path == TakeFirst(after, FirstOf(after, {"?", "#"}, 1) - 1)
    IN  [netloc |-> netloc, path |-> path]

(***************************************************************************)
(* src/src/url_class.py                                                    *)
(***************************************************************************)
MainRev == <<"main">>

NoIdentity == [ok |-> FALSE, namespace |-> <<>>, repo |-> <<>>, rev |-> <<>>]

\* parse_huggingface_url with the path split as it stands, without strip("/")
parse_huggingface_url_nostrip(u) ==
    LET parsed == urlparse(u)
        parts == Split(parsed.path, "/")
    IN  IF Len(parts) < 2 THEN NoIdentity
        ELSE [ok |-> TRUE, namespace |-> parts[1], repo |-> parts[2],
              rev |-> IF Len(parts) >= 4 /\ parts[3] = <<"tree">>
                      THEN parts[4] ELSE MainRev]

\* parse_huggingface_url reading the tag and the revision one segment later
parse_huggingface_url_shifted(u) ==
    LET parsed == urlparse(u)
        parts == Split(Strip(parsed.path, {"/"}), "/")
    IN  IF Len(parts) < 2 THEN NoIdentity
        ELSE [ok |-> TRUE, namespace |-> parts[1], repo |-> parts[2],
              rev |-> IF Len(parts) >= 5 /\ parts[4] = <<"tree">>
                      THEN parts[5] ELSE MainRev]

\* parse_huggingface_url: ok = FALSE stands for the ValueError it raises
parse_huggingface_url(u) ==
    LET parsed == urlparse(u)
        parts == Split(Strip(parsed.path, {"/"}), "/")
    IN  IF Len(parts) < 2 THEN NoIdentity
        ELSE [ok |-> TRUE, namespace |-> parts[1], repo |-> parts[2],
              rev |-> IF Len(parts) >= 4 /\ parts[3] = <<"tree">>
                      THEN parts[4] ELSE MainRev]

HuggingFaceDomain == <<"huggingface", ".", "co">>

GitHubDomain == <<"github", ".", "co", "m">>

NoDataset == [ok |-> FALSE, value |-> <<>>]

\* parse_dataset_url: ok = FALSE stands for the ValueError it raises
parse_dataset_url(u) ==
    LET parsed == urlparse(u)
        parts == Split(Strip(parsed.path, {"/"}), "/")
    IN  IF Contains(parsed.netloc, HuggingFaceDomain)
        THEN IF Len(parts) < 2 \/ parts[1] # <<"datasets">>
             THEN NoDataset
             ELSE [ok |-> TRUE, value |-> parts[Len(parts)]]
        ELSE IF Contains(parsed.netloc, GitHubDomain)
        THEN [ok |-> TRUE, value |-> u]
        ELSE NoDataset

None == [none |-> TRUE]

\* Code(link), Dataset(link, "", repo, ""), Model(link, ns, rp, rev)
Code(link) == [link |-> link, namespace |-> EmptyStr]

Dataset(link, repo) ==
    [link |-> link, namespace |-> EmptyStr, repo |-> repo, rev |-> EmptyStr]

Model(link, ns, rp, rev) == [link |-> link, namespace |-> ns, repo |-> rp, rev |-> rev]

ProjectGroup(code, dataset, model) == [code |-> code, dataset |-> dataset, model |-> model]

\* parts = [p.strip() for p in line.split(",")]
StrippedParts(line) ==
    LET raw == Split(line, ",")
    IN  [i \in 1..Len(raw) |-> Strip(raw[i], Whitespace)]

\* while len(parts) < 3: parts.append("")
PadParts(parts) ==
    IF Len(parts) < 3 THEN parts \o [i \in 1..(3 - Len(parts)) |-> EmptyStr] ELSE parts

LineError == [err |-> TRUE, group |-> None]

\* the body of the for loop for one stripped, non-empty line; err = TRUE stands
\* for the ValueError raised by the unpacking or by a classifier function
ParseLine(line) ==
    LET parts == PadParts(StrippedParts(line))
    IN  IF Len(parts) # 3 THEN LineError
        ELSE LET code_link == parts[1]
                 dataset_link == parts[2]
                 model_link == parts[3]
                 hf == parse_huggingface_url(model_link)
                 ds == parse_dataset_url(dataset_link)
             IN  IF model_link # EmptyStr /\ ~hf.ok THEN LineError
                 ELSE IF dataset_link # EmptyStr /\ ~ds.ok THEN LineError
                 ELSE [err |-> FALSE,
                       group |-> ProjectGroup(
                           IF code_link # EmptyStr THEN Code(code_link) ELSE None,
                           IF dataset_link # EmptyStr
                               THEN Dataset(dataset_link, ds.value) ELSE None,
                           IF model_link # EmptyStr
                               THEN Model(model_link, hf.namespace, hf.repo, hf.rev)
                               ELSE None)]

ParseFailed == [err |-> TRUE, groups |-> <<>>]

\* the for loop over the lines of the file, from line k on
RECURSIVE ParseFrom(_, _, _)
ParseFrom(lines, k, groups) ==
    IF k > Len(lines) THEN [err |-> FALSE, groups |-> groups]
    ELSE LET line == Strip(lines[k], Whitespace)
         IN  IF line = EmptyStr THEN ParseFrom(lines, k + 1, groups)
             ELSE LET r == ParseLine(line)
                  IN  IF r.err THEN ParseFailed
                      ELSE ParseFrom(lines, k + 1, Append(groups, r.group))

\* parse_project_file that raises on a line of fewer than three fields
\* instead of padding it
RECURSIVE ParseFromNoPad(_, _, _)
ParseFromNoPad(lines, k, groups) ==
    IF k > Len(lines) THEN [err |-> FALSE, groups |-> groups]
    ELSE LET line == Strip(lines[k], Whitespace)
         IN  IF line = EmptyStr THEN ParseFromNoPad(lines, k + 1, groups)
             ELSE LET r == ParseLine(line)
                  IN  IF r.err \/ Len(StrippedParts(line)) < 3 THEN ParseFailed
                      ELSE ParseFromNoPad(lines, k + 1, Append(groups, r.group))

parse_project_file_nopad(lines) == ParseFromNoPad(lines, 1, <<>>)

\* parse_project_file that recovers per line: a line that raises is left out
RECURSIVE ParseFromSkipBad(_, _, _)
ParseFromSkipBad(lines, k, groups) ==
    IF k > Len(lines) THEN [err |-> FALSE, groups |-> groups]
    ELSE LET line == Strip(lines[k], Whitespace)
         IN  IF line = EmptyStr THEN ParseFromSkipBad(lines, k + 1, groups)
             ELSE LET r == ParseLine(line)
                  IN  IF r.err THEN ParseFromSkipBad(lines, k + 1, groups)
                      ELSE ParseFromSkipBad(lines, k + 1, Append(groups, r.group))

parse_project_file_skipbad(lines) == ParseFromSkipBad(lines, 1, <<>>)

\* parse_project_file that stops reading at the first line that raises and
\* returns the groups read so far
RECURSIVE ParseFromPartial(_, _, _)
ParseFromPartial(lines, k, groups) ==
    IF k > Len(lines) THEN [err |-> FALSE, groups |-> groups]
    ELSE LET line == Strip(lines[k], Whitespace)
         IN  IF line = EmptyStr THEN ParseFromPartial(lines, k + 1, groups)
             ELSE LET r == ParseLine(line)
                  IN  IF r.err THEN [err |-> FALSE, groups |-> groups]
                      ELSE ParseFromPartial(lines, k + 1, Append(groups, r.group))

parse_project_file_partial(lines) == ParseFromPartial(lines, 1, <<>>)

\* parse_project_file: err = TRUE stands for the exception that leaves it
parse_project_file(lines) == ParseFrom(lines, 1, <<>>)

(***************************************************************************)
(* The metric registry and the concurrent evaluator (metric_caller), which *)
(* run.py calls and whose source is not among the files: modelled from the *)
(* specification, sections 4.3 and 4.4.                                    *)
(***************************************************************************)
\* load_available_functions("metrics"): the names of the loadable metrics
Registry == {"license", "size"}

\* step 1: the task list as an ordered set of names (a repeated name counts once)
RECURSIVE OrderedSet(_)
OrderedSet(names) ==
    IF names = <<>> THEN <<>>
    ELSE LET init == OrderedSet(SubSeq(names, 1, Len(names) - 1))
             last == names[Len(names)]
         IN  IF \E i \in 1..Len(init) : init[i] = last THEN init ELSE Append(init, last)

Range(f) == {f[i] : i \in DOMAIN f}

\* step 1: the selected names, validated against the registry; err = TRUE is
\* the configuration error for an unknown name
ResolveTasks(file, registry) ==
    [err |-> \E i \in 1..Len(file) : file[i] \notin registry,
     names |-> Range(OrderedSet(file))]

\* the score (in tenths) metric m computes from an input record: a black box
\* that is a function of the record alone
Evaluate(m, rec) ==
    IF m = "license" THEN (IF rec.license = EmptyStr THEN 5 ELSE 10)
    ELSE (IF rec.dataset_name = EmptyStr THEN 2 ELSE 8)

\* step 4: the neutral default a failing metric degrades to
DefaultScore == 0

\* step 4 with a failing metric's entry dropped instead of defaulted
UnitResult_dropped(m, rec, outcome, sofar) ==
    IF outcome = "ok" THEN (m :> Evaluate(m, rec)) @@ sofar ELSE sofar

\* step 4 with a failure that resets what the siblings have reported
UnitResult_contaminating(m, rec, outcome, sofar) ==
    IF outcome = "ok" THEN (m :> Evaluate(m, rec)) @@ sofar
    ELSE [n \in DOMAIN sofar \cup {m} |-> DefaultScore]

\* steps 4 and 5: the entry one finished unit adds to the results collected so
\* far; outcome is ok, raise (an unexpected error) or malformed (a bad return)
UnitResult(m, rec, outcome, sofar) ==
    (m :> (IF outcome = "ok" THEN Evaluate(m, rec) ELSE DefaultScore)) @@ sofar

Outcomes == {"ok", "raise", "malformed"}

(***************************************************************************)
(* src/run.py: main(), the branch that runs a URL file                     *)
(***************************************************************************)
NoRecord == [repo_owner |-> EmptyStr, repo_name |-> EmptyStr, license |-> EmptyStr,
             github_str |-> EmptyStr, dataset_name |-> EmptyStr]

NoUnits == [m \in {} |-> "pending"]

NoScores == [m \in {} |-> 0]

\* what get_model_license may return for a model: a collaborator's answer
LicenseSamples == {EmptyStr, <<"mit">>}

\* input_dict, lines 118-157 (verbosity, log_queue, model_size_bytes and
\* filename are values no modelled metric reads)
BuildInputDict(i, license_value) ==
    [repo_owner |-> i.model.namespace,
     repo_name |-> i.model.repo,
     license |-> license_value,
     github_str |-> IF i.code # None THEN i.code.link ELSE EmptyStr,
     dataset_name |-> IF i.dataset # None THEN i.dataset.repo ELSE EmptyStr]

\* lines 109-110: the whole manifest is parsed before the loop starts; an
\* exception of parse_project_file is not caught and ends the run
MainParse ==
    /\ pc = "start"
    /\ LET r == parse_project_file(manifest)
       IN  IF r.err
           THEN /\ pc' = "failed"
                /\ error' = "manifest"
                /\ UNCHANGED project_groups
           ELSE /\ pc' = "loop"
                /\ project_groups' = r.groups
                /\ UNCHANGED error
    /\ UNCHANGED <<manifest, tasks_file, idx, input_dict, status, scores, failed,
                   evaluated, executed, emitted,
                   urlVars, licenseVars>>

\* the loop ends the run at the first group without a model
MainLoopSkip_break ==
    /\ pc = "loop"
    /\ idx <= Len(project_groups)
    /\ project_groups[idx].model = None
    /\ pc' = "done"
    /\ UNCHANGED <<manifest, tasks_file, error, project_groups, idx, input_dict,
                   status, scores, failed, evaluated, executed, emitted,
                   urlVars, licenseVars>>

\* lines 113-116: a group without a model is passed over
MainLoopSkip ==
    /\ pc = "loop"
    /\ idx <= Len(project_groups)
    /\ project_groups[idx].model = None
    /\ idx' = idx + 1
    /\ UNCHANGED <<manifest, tasks_file, pc, error, project_groups, input_dict,
                   status, scores, failed, evaluated, executed, emitted,
                   urlVars, licenseVars>>

\* lines 118-159: the record of the group is built and the evaluator is
\* called; it resolves the task list (step 1) and launches every selected
\* metric as a unit of its own (step 2).  namespace and repo are strings, so
\* the test of line 122 (is None) never passes a group over.
MainLoopDispatch ==
    /\ pc = "loop"
    /\ idx <= Len(project_groups)
    /\ project_groups[idx].model # None
    /\ ~ResolveTasks(tasks_file, Registry).err
    /\ \E license_value \in LicenseSamples :
           input_dict' = BuildInputDict(project_groups[idx], license_value)
    /\ status' = [m \in ResolveTasks(tasks_file, Registry).names |-> "pending"]
    /\ scores' = NoScores
    /\ failed' = {}
    /\ evaluated' = Append(evaluated, idx)
    /\ pc' = "eval"
    /\ UNCHANGED <<manifest, tasks_file, error, project_groups, idx, executed,
                   emitted,
                   urlVars, licenseVars>>

\* line 159 with a task list that names an unknown metric: the evaluator's
\* configuration error is not caught and ends the run
MainLoopTaskError ==
    /\ pc = "loop"
    /\ idx <= Len(project_groups)
    /\ project_groups[idx].model # None
    /\ ResolveTasks(tasks_file, Registry).err
    /\ pc' = "failed"
    /\ error' = "tasklist"
    /\ UNCHANGED <<manifest, tasks_file, project_groups, idx, input_dict, status,
                   scores, failed, evaluated, executed, emitted,
                   urlVars, licenseVars>>

\* a launched unit starts its evaluate call
UnitStart(m) ==
    /\ pc = "eval"
    /\ status[m] = "pending"
    /\ status' = [status EXCEPT ![m] = "running"]
    /\ executed' = executed \cup {<<idx, m>>}
    /\ UNCHANGED <<manifest, tasks_file, pc, error, project_groups, idx, input_dict,
                   scores, failed, evaluated, emitted,
                   urlVars, licenseVars>>

\* a running unit ends: with its score, with an error, or with a bad value
UnitFinish(m) ==
    /\ pc = "eval"
    /\ status[m] = "running"
    /\ \E outcome \in Outcomes :
           /\ scores' = UnitResult(m, input_dict, outcome, scores)
           /\ failed' = IF outcome = "ok" THEN failed ELSE failed \cup {m}
    /\ status' = [status EXCEPT ![m] = "done"]
    /\ UNCHANGED <<manifest, tasks_file, pc, error, project_groups, idx, input_dict,
                   evaluated, executed, emitted,
                   urlVars, licenseVars>>

\* lines 159-160: the evaluator returns once every unit is done and the report
\* goes to build_model_output under the repository's name
MainLoopEmit ==
    /\ pc = "eval"
    /\ \A m \in DOMAIN status : status[m] = "done"
    /\ emitted' = Append(emitted, [name |-> input_dict.repo_name, group |-> idx,
                                   record |-> input_dict, scores |-> scores,
                                   failed |-> failed])
    /\ idx' = idx + 1
    /\ pc' = "loop"
    /\ UNCHANGED <<manifest, tasks_file, error, project_groups, input_dict, status,
                   scores, failed, evaluated, executed,
                   urlVars, licenseVars>>

\* line 162: the loop is over, main returns 0
MainReturn ==
    /\ pc = "loop"
    /\ idx > Len(project_groups)
    /\ pc' = "done"
    /\ UNCHANGED <<manifest, tasks_file, error, project_groups, idx, input_dict,
                   status, scores, failed, evaluated, executed, emitted,
                   urlVars, licenseVars>>

\* the state of main() before it starts, the input files apart
MainInitial ==
    /\ pc = "start"
    /\ error = ""
    /\ project_groups = <<>>
    /\ idx = 1
    /\ input_dict = NoRecord
    /\ status = NoUnits
    /\ scores = NoScores
    /\ failed = {}
    /\ evaluated = <<>>
    /\ executed = {}
    /\ emitted = <<>>

\* main() not under study (SpecUrl, SpecDataset)
MainIdle ==
    /\ manifest = <<>>
    /\ tasks_file = <<>>
    /\ MainInitial

\* the URL classifier not under study (Spec, SpecParse)
UrlIdle ==
    /\ url = EmptyStr
    /\ op = "none"
    /\ identity = NoIdentity
    /\ dataset_id = NoDataset

(***************************************************************************)
(* src/src/metrics/calculate_license_score.py                              *)
(* A license text is a sequence of single characters, so the substring     *)
(* tests of the tiers are the tests Python makes on the characters.        *)
(* Scores are in tenths (10 is 1.0).                                       *)
(***************************************************************************)
\* lines 33-35, Tier 1: mit, apache-2.0, apache2, apache license 2.0,
\* bsd-2-clause, bsd-3-clause, bsd-2, bsd-3, bsd, unlicense, cc0,
\* creative commons zero
permissive_licenses ==
    { <<"m", "i", "t">>,
      <<"a", "p", "a", "c", "h", "e", "-", "2", ".", "0">>,
      <<"a", "p", "a", "c", "h", "e", "2">>,
      <<"a", "p", "a", "c", "h", "e", " ", "l", "i", "c", "e", "n", "s",
        "e", " ", "2", ".", "0">>,
      <<"b", "s", "d", "-", "2", "-", "c", "l", "a", "u", "s", "e">>,
      <<"b", "s", "d", "-", "3", "-", "c", "l", "a", "u", "s", "e">>,
      <<"b", "s", "d", "-", "2">>,
      <<"b", "s", "d", "-", "3">>,
      <<"b", "s", "d">>,
      <<"u", "n", "l", "i", "c", "e", "n", "s", "e">>,
      <<"c", "c", "0">>,
      <<"c", "r", "e", "a", "t", "i", "v", "e", " ", "c", "o", "m", "m",
        "o", "n", "s", " ", "z", "e", "r", "o">> }

\* line 43, Tier 2: lgpl-2.1, lgplv2.1
lgpl_2_1_licenses ==
    { <<"l", "g", "p", "l", "-", "2", ".", "1">>,
      <<"l", "g", "p", "l", "v", "2", ".", "1">> }

\* lines 49-50, Tier 3: mpl-2.0, mpl2, mozilla public license 2.0,
\* eclipse-2.0, eclipse public license 2.0
other_permissive_licenses ==
    { <<"m", "p", "l", "-", "2", ".", "0">>,
      <<"m", "p", "l", "2">>,
      <<"m", "o", "z", "i", "l", "l", "a", " ", "p", "u", "b", "l", "i",
        "c", " ", "l", "i", "c", "e", "n", "s", "e", " ", "2", ".", "0">>,
      <<"e", "c", "l", "i", "p", "s", "e", "-", "2", ".", "0">>,
      <<"e", "c", "l", "i", "p", "s", "e", " ", "p", "u", "b", "l", "i",
        "c", " ", "l", "i", "c", "e", "n", "s", "e", " ", "2", ".", "0">> }

\* line 56, Tier 4: lgpl, lgpl-, lesser general public license
lgpl_family_licenses ==
    { <<"l", "g", "p", "l">>,
      <<"l", "g", "p", "l", "-">>,
      <<"l", "e", "s", "s", "e", "r", " ", "g", "e", "n", "e", "r", "a",
        "l", " ", "p", "u", "b", "l", "i", "c", " ", "l", "i", "c", "e", "n",
        "s", "e">> }

\* line 62, Tier 5: openrail
openrail_licenses ==
    { <<"o", "p", "e", "n", "r", "a", "i", "l">> }

\* line 66, Tier 5: llama2, gemma, bigscience, bigcode
modern_ml_licenses ==
    { <<"l", "l", "a", "m", "a", "2">>,
      <<"g", "e", "m", "m", "a">>,
      <<"b", "i", "g", "s", "c", "i", "e", "n", "c", "e">>,
      <<"b", "i", "g", "c", "o", "d", "e">> }

\* line 72, Tier 6: lgpl-3.0, lgplv3, epl-1.0, epl-2.0
weak_copyleft_licenses ==
    { <<"l", "g", "p", "l", "-", "3", ".", "0">>,
      <<"l", "g", "p", "l", "v", "3">>,
      <<"e", "p", "l", "-", "1", ".", "0">>,
      <<"e", "p", "l", "-", "2", ".", "0">> }

\* line 78, Tier 7: gpl-2.0, gplv2
gpl_2_licenses ==
    { <<"g", "p", "l", "-", "2", ".", "0">>,
      <<"g", "p", "l", "v", "2">> }

\* line 82, Tier 7: gpl-3.0, gplv3, gpl, agpl, affero gpl
strong_copyleft_licenses ==
    { <<"g", "p", "l", "-", "3", ".", "0">>,
      <<"g", "p", "l", "v", "3">>,
      <<"g", "p", "l">>,
      <<"a", "g", "p", "l">>,
      <<"a", "f", "f", "e", "r", "o", " ", "g", "p", "l">> }

\* lines 88-90, Tier 8: non-commercial, noncommercial, research-only,
\* research use, no-derivatives, cc-by-nc, educational, academic, non-profit
restricted_licenses ==
    { <<"n", "o", "n", "-", "c", "o", "m", "m", "e", "r", "c", "i", "a",
        "l">>,
      <<"n", "o", "n", "c", "o", "m", "m", "e", "r", "c", "i", "a", "l">>,
      <<"r", "e", "s", "e", "a", "r", "c", "h", "-", "o", "n", "l", "y">>,
      <<"r", "e", "s", "e", "a", "r", "c", "h", " ", "u", "s", "e">>,
      <<"n", "o", "-", "d", "e", "r", "i", "v", "a", "t", "i", "v", "e",
        "s">>,
      <<"c", "c", "-", "b", "y", "-", "n", "c">>,
      <<"e", "d", "u", "c", "a", "t", "i", "o", "n", "a", "l">>,
      <<"a", "c", "a", "d", "e", "m", "i", "c">>,
      <<"n", "o", "n", "-", "p", "r", "o", "f", "i", "t">> }

\* lines 96-97, Tier 9: proprietary, closed source, commercial,
\* all rights reserved
proprietary_licenses ==
    { <<"p", "r", "o", "p", "r", "i", "e", "t", "a", "r", "y">>,
      <<"c", "l", "o", "s", "e", "d", " ", "s", "o", "u", "r", "c", "e">>,
      <<"c", "o", "m", "m", "e", "r", "c", "i", "a", "l">>,
      <<"a", "l", "l", " ", "r", "i", "g", "h", "t", "s", " ", "r", "e",
        "s", "e", "r", "v", "e", "d">> }

\* the branches of the if/elif chain of lines 37-100, in the order tested
Branches ==
    << [keywords |-> permissive_licenses, score |-> 10],
       [keywords |-> lgpl_2_1_licenses, score |-> 9],
       [keywords |-> other_permissive_licenses, score |-> 8],
       [keywords |-> lgpl_family_licenses, score |-> 7],
       [keywords |-> openrail_licenses, score |-> 7],
       [keywords |-> modern_ml_licenses, score |-> 6],
       [keywords |-> weak_copyleft_licenses, score |-> 6],
       [keywords |-> gpl_2_licenses, score |-> 5],
       [keywords |-> strong_copyleft_licenses, score |-> 3],
       [keywords |-> restricted_licenses, score |-> 2],
       [keywords |-> proprietary_licenses, score |-> 0] >>

\* line 104: the score of the final else
UnknownScore == 5

\* line 111: the score the except clause sets
FallbackScore == 5

\* line 30: the text of a license_info that is empty or None
UnknownText == <<"u", "n", "k", "n", "o", "w", "n">>

LowerCase ==
    <<"a", "b", "c", "d", "e", "f", "g", "h", "i", "j", "k", "l", "m",
      "n", "o", "p", "q", "r", "s", "t", "u", "v", "w", "x", "y", "z">>

UpperCase ==
    <<"A", "B", "C", "D", "E", "F", "G", "H", "I", "J", "K", "L", "M",
      "N", "O", "P", "Q", "R", "S", "T", "U", "V", "W", "X", "Y", "Z">>

\* str.lower()
Lower(s) ==
    [i \in 1..Len(s) |->
        IF \E j \in DOMAIN UpperCase : UpperCase[j] = s[i]
        THEN LowerCase[CHOOSE j \in DOMAIN UpperCase : UpperCase[j] = s[i]]
        ELSE s[i]]

\* a license_info that is a str (the other license_info is None)
Str(s) == [value |-> s]

\* lines 24, 30: `if license_info`
Truthy(info) == info # None /\ info.value # EmptyStr

\* line 30
LicenseText(info) ==
    IF Truthy(info) THEN Strip(Lower(info.value), Whitespace) ELSE UnknownText

\* any(license in license_text for license in keywords)
AnyIn(keywords, license_text) == \E k \in keywords : Contains(license_text, k)

\* lines 37-106: the score of the first branch one of whose keywords occurs
\* in the text, the final else when there is none
TierScore(license_text) ==
    LET hits == {i \in DOMAIN Branches : AnyIn(Branches[i].keywords, license_text)}
    IN  IF hits = {} THEN UnknownScore
        ELSE Branches[CHOOSE i \in hits : \A j \in hits : i <= j].score

\* the log_queue.put calls a run of the function can make: line 17, lines
\* 25/27, the one of the branch taken (lines 40-106), line 110, line 116.
\* Each is made at most once; the sink is the set of those that raise.
PutSites == {"start", "found", "tier", "critical", "finished"}

\* lines 14-118.  The puts are made when verbosity >= 1 only.  A put that
\* raises inside the try (lines 23-106) is caught at line 108; one that raises
\* at line 17, in the except clause (line 110) or at line 116 is not.  elapsed
\* is the difference of the two clock readings of lines 20 and 114.
calculate_license_score(info, level, sink, elapsed) ==
    LET raises(site) == level >= 1 /\ site \in sink
        caught == raises("found") \/ raises("tier")
        score == IF caught THEN FallbackScore ELSE TierScore(LicenseText(info))
        propagated ==
            \/ raises("start")
            \/ caught /\ raises("critical")
            \/ raises("finished")
    IN  IF propagated
        THEN [raised |-> TRUE, caught |-> ~raises("start") /\ caught]
        ELSE [raised |-> FALSE, caught |-> caught, score |-> score,
              latency |-> elapsed]

\* calculate_license_score not under study (the other specifications)
LicenseIdle ==
    /\ license_info = None
    /\ verbosity = 0
    /\ log_queue = {}
    /\ license_score = None

(***************************************************************************)
(* SpecUrl: parse_huggingface_url applied to bounded model links           *)
(* SpecDataset: parse_dataset_url applied to bounded dataset links         *)
(***************************************************************************)
SeqsUpTo(S, n) == UNION {[1..k -> S] : k \in 0..n}

HttpsPrefix == <<"https", ":", "/", "/">>

\* the path segments the model links are built from
SegSamples == {<<>>, <<"ns">>, <<"repo">>, <<"tree">>, <<"tree", "s">>}

\* in front of the segments: nothing (a relative path), a slash, a full URL
PrefixSamples == {<<>>, <<"/">>, HttpsPrefix \o HuggingFaceDomain \o <<"/">>}

UrlSamples ==
    {p \o Join(segs, "/") : p \in PrefixSamples, segs \in SeqsUpTo(SegSamples, MaxSegs)}

\* the path segments the dataset links are built from
DatasetSegSamples == {<<>>, <<"ns">>, <<"datasets">>}

\* the hosts of the dataset links; the first is the link without scheme and host
HostSamples ==
    { <<>>,
      HttpsPrefix \o HuggingFaceDomain,
      HttpsPrefix \o <<"www", ".">> \o HuggingFaceDomain,
      HttpsPrefix \o HuggingFaceDomain \o <<"m">>,
      HttpsPrefix \o GitHubDomain,
      HttpsPrefix \o GitHubDomain \o <<".", "evil", ".", "org">>,
      HttpsPrefix \o <<"evil", ".", "org">> }

DatasetUrlSamples ==
    {h \o <<"/">> \o Join(segs, "/") :
        h \in HostSamples, segs \in SeqsUpTo(DatasetSegSamples, MaxSegs)}

InitUrl ==
    /\ url \in UrlSamples
    /\ op = "none"
    /\ identity = NoIdentity
    /\ dataset_id = NoDataset
    /\ MainIdle
    /\ LicenseIdle

InitDataset ==
    /\ url \in DatasetUrlSamples
    /\ op = "none"
    /\ identity = NoIdentity
    /\ dataset_id = NoDataset
    /\ MainIdle
    /\ LicenseIdle

CallParseHuggingfaceUrl ==
    /\ op = "none"
    /\ op' = "parse_huggingface_url"
    /\ identity' = parse_huggingface_url(url)
    /\ UNCHANGED <<url, dataset_id, mainVars, licenseVars>>

CallParseDatasetUrl ==
    /\ op = "none"
    /\ op' = "parse_dataset_url"
    /\ dataset_id' = parse_dataset_url(url)
    /\ UNCHANGED <<url, identity, mainVars, licenseVars>>

NextUrl == CallParseHuggingfaceUrl

NextDataset == CallParseDatasetUrl

SpecUrl == InitUrl /\ [][NextUrl]_vars

SpecDataset == InitDataset /\ [][NextDataset]_vars

(***************************************************************************)
(* SpecLicense: calculate_license_score applied to bounded arguments       *)
(***************************************************************************)
\* str.upper(), for the samples
Upper(s) ==
    [i \in 1..Len(s) |->
        IF \E j \in DOMAIN LowerCase : LowerCase[j] = s[i]
        THEN UpperCase[CHOOSE j \in DOMAIN LowerCase : LowerCase[j] = s[i]]
        ELSE s[i]]

\* the first letter in upper case ("Apache-2.0"), for the samples
Capitalize(s) == IF s = <<>> THEN s ELSE Upper(TakeFirst(s, 1)) \o DropFirst(s, 1)

\* every keyword of every branch
Keywords == UNION {Branches[i].keywords : i \in DOMAIN Branches}

\* texts that are no keyword: empty, blank, padded, unlisted
OtherLicenseTexts ==
    { EmptyStr,
      <<" ", " ">>,
      <<" ", "M", "I", "T", " ">>,
      <<"c", "u", "s", "t", "o", "m">>,
      <<"U", "n", "k", "n", "o", "w", "n", " ", "L", "i", "c", "e", "n",
        "s", "e">> }

\* the license_info arguments: None, and each text in some letter cases
LicenseInfoSamples ==
    {None} \cup {Str(t) : t \in OtherLicenseTexts}
           \cup {Str(k) : k \in Keywords}
           \cup {Str(Upper(k)) : k \in Keywords}
           \cup {Str(Capitalize(k)) : k \in Keywords}

VerbositySamples == {0, 1, 2}

InitLicense ==
    /\ license_info \in LicenseInfoSamples
    /\ verbosity \in VerbositySamples
    /\ log_queue \in SUBSET PutSites
    /\ license_score = None
    /\ UrlIdle
    /\ MainIdle

CallCalculateLicenseScore ==
    /\ op = "none"
    /\ op' = "calculate_license_score"
    /\ \E elapsed \in 0..MaxElapsed :
           license_score' =
               calculate_license_score(license_info, verbosity, log_queue, elapsed)
    /\ UNCHANGED <<url, identity, dataset_id, mainVars, license_info, verbosity,
                   log_queue>>

NextLicense == CallCalculateLicenseScore

SpecLicense == InitLicense /\ [][NextLicense]_vars

(***************************************************************************)
(* SpecParse: parse_project_file (the first step of main) on bounded       *)
(* manifests.  Spec: the whole run on bounded manifests and task lists.    *)
(***************************************************************************)
CommaJoin(fields) == Join(fields, ",")

HfUrl(segs) == HttpsPrefix \o HuggingFaceDomain \o <<"/">> \o Join(segs, "/")

GitHubUrl == HttpsPrefix \o GitHubDomain \o <<"/", "ns", "/", "repo">>

ModelUrlA == HfUrl(<<<<"ns">>, <<"repo">>>>)

ModelUrlB == HfUrl(<<<<"ns">>, <<"other">>, <<"tree">>, <<"v2">>>>)

\* a model link of one path segment: parse_huggingface_url raises on it
ModelUrlBad == HfUrl(<<<<"repo">>>>)

DatasetUrl == HfUrl(<<<<"datasets">>, <<"ns">>, <<"data">>>>)

\* a dataset link on a domain parse_dataset_url does not know
DatasetUrlBad == HttpsPrefix \o <<"evil", ".", "org", "/", "data">>

\* lines of one to four comma-separated fields, blank lines, a line of empty
\* fields and a line with blanks around its fields
LineSamples ==
    { EmptyStr,
      <<" ">>,
      <<",", ",">>,
      GitHubUrl,
      CommaJoin(<<GitHubUrl, DatasetUrl>>),
      CommaJoin(<<EmptyStr, GitHubUrl>>),
      CommaJoin(<<EmptyStr, DatasetUrlBad>>),
      CommaJoin(<<EmptyStr, EmptyStr, ModelUrlA>>),
      CommaJoin(<<GitHubUrl, DatasetUrl, ModelUrlB>>),
      CommaJoin(<<EmptyStr, EmptyStr, ModelUrlBad>>),
      CommaJoin(<<EmptyStr, DatasetUrlBad, ModelUrlA>>),
      CommaJoin(<<EmptyStr, EmptyStr, ModelUrlA, <<"extra">>>>),
      <<" ", ",", " ">> \o DatasetUrl \o <<" ", ",", " ">> \o ModelUrlA \o <<" ">> }

InitParse ==
    /\ manifest \in SeqsUpTo(LineSamples, MaxLines)
    /\ tasks_file = <<>>
    /\ MainInitial
    /\ UrlIdle
    /\ LicenseIdle

NextParse == MainParse

SpecParse == InitParse /\ [][NextParse]_vars

\* the lines of the manifests of a whole run
RunLineSamples ==
    { EmptyStr,
      GitHubUrl,
      CommaJoin(<<EmptyStr, EmptyStr, ModelUrlA>>),
      CommaJoin(<<EmptyStr, DatasetUrl, ModelUrlB>>),
      CommaJoin(<<EmptyStr, EmptyStr, ModelUrlBad>>),
      CommaJoin(<<EmptyStr, DatasetUrlBad, ModelUrlA>>) }

\* task lists: empty, one name, two names, a repeated name, an unknown name
TaskFileSamples ==
    {<<>>, <<"license">>, <<"size", "license">>, <<"license", "license">>,
     <<"license", "bogus">>}

Init ==
    /\ manifest \in SeqsUpTo(RunLineSamples, MaxRunLines)
    /\ tasks_file \in TaskFileSamples
    /\ MainInitial
    /\ UrlIdle
    /\ LicenseIdle

\* the steps of the for loop and of the evaluation it waits for
MainLoop ==
    \/ MainLoopSkip
    \/ MainLoopDispatch
    \/ MainLoopTaskError
    \/ \E m \in Registry : m \in DOMAIN status /\ UnitStart(m)
    \/ \E m \in Registry : m \in DOMAIN status /\ UnitFinish(m)
    \/ MainLoopEmit
    \/ MainReturn

Next == MainParse \/ MainLoop

Spec == Init /\ [][Next]_vars

(***************************************************************************)
(* Properties of the manifest parser (SpecParse) and of the run (Spec)     *)
(***************************************************************************)
\* a line of blanks only
IsBlank(line) == \A i \in 1..Len(line) : line[i] \in Whitespace

NonBlankLines(lines) == SelectSeq(lines, LAMBDA l : ~IsBlank(l))

FieldCount(line) == Len(Split(line, ","))

\* the n-th comma-separated field of a line, blanks around it removed; empty
\* when the line has fewer fields
FieldOf(line, n) ==
    IF n <= FieldCount(line) THEN Strip(Split(line, ",")[n], Whitespace) ELSE EmptyStr

\* the line carries a model link or a dataset link its classifier rejects
LineMalformed(line) ==
    /\ ~IsBlank(line)
    /\ \/ FieldOf(line, 3) # EmptyStr /\ ~parse_huggingface_url(FieldOf(line, 3)).ok
       \/ FieldOf(line, 2) # EmptyStr /\ ~parse_dataset_url(FieldOf(line, 2)).ok

\* a well-formed line: at most three fields, its links accepted
LineWellFormed(line) == FieldCount(line) <= 3 /\ ~LineMalformed(line)

\* the role is absent exactly when its field is empty, else it holds the link
RoleMatches(role, field) ==
    IF field = EmptyStr THEN role = None ELSE role # None /\ role.link = field

\* C3: for a manifest whose non-blank lines are well-formed (at most three
\* fields, links the classifier accepts) parse_project_file returns one group
\* per non-blank line, in file order; a blank line gives no group and a line
\* of fewer than three fields is padded, its absent roles being None.
InvC3 ==
    (pc # "start" /\ \A k \in 1..Len(manifest) :
                         IsBlank(manifest[k]) \/ LineWellFormed(manifest[k])) =>
        LET lines == NonBlankLines(manifest)
        IN  /\ pc = "loop"
            /\ Len(project_groups) = Len(lines)
            /\ \A k \in 1..Len(lines) :
                   /\ RoleMatches(project_groups[k].code, FieldOf(lines[k], 1))
                   /\ RoleMatches(project_groups[k].dataset, FieldOf(lines[k], 2))
                   /\ RoleMatches(project_groups[k].model, FieldOf(lines[k], 3))

\* C3 witness: a blank line, then a line of two fields, then a full line have
\* been parsed into two groups, the first without a model
WitC3 ==
    /\ pc = "loop"
    /\ Len(manifest) = 3
    /\ IsBlank(manifest[1])
    /\ FieldCount(manifest[2]) = 2
    /\ FieldCount(manifest[3]) = 3
    /\ Len(project_groups) = 2
    /\ project_groups[1].model = None
    /\ project_groups[1].dataset # None
    /\ project_groups[2].model # None

\* C4: if a line of the manifest carries a malformed model link or a
\* malformed or unsupported dataset link, parse_project_file fails as a whole:
\* the run ends on the manifest error, no group is returned, not even those of
\* the earlier lines, and nothing is evaluated or reported.
InvC4 ==
    (pc # "start" /\ \E k \in 1..Len(manifest) : LineMalformed(manifest[k])) =>
        /\ pc = "failed"
        /\ error = "manifest"
        /\ project_groups = <<>>
        /\ evaluated = <<>>
        /\ executed = {}
        /\ emitted = <<>>

\* C4 witness: the run has failed on a manifest whose first line is a valid
\* line with a model and whose second line is malformed
WitC4 ==
    /\ pc = "failed"
    /\ Len(manifest) = 2
    /\ LineWellFormed(manifest[1])
    /\ FieldOf(manifest[1], 3) # EmptyStr
    /\ LineMalformed(manifest[2])

\* the names the task list selects
SelectedNames == {tasks_file[i] : i \in 1..Len(tasks_file)}

\* C1: every report the evaluator returns has exactly the selected metric
\* names as its keys, whatever the order in which the units started and
\* finished and whichever of them failed.
InvC1 ==
    /\ \A k \in 1..Len(emitted) : DOMAIN emitted[k].scores = SelectedNames
    /\ (pc = "eval" /\ \A m \in DOMAIN status : status[m] = "done") =>
           DOMAIN scores = SelectedNames

\* C1 witness: a report over two metrics, one of which failed, was returned
WitC1 ==
    \E k \in 1..Len(emitted) :
        /\ Cardinality(DOMAIN emitted[k].scores) = 2
        /\ Cardinality(emitted[k].failed) = 1

\* C2: in every returned report each selected metric that did not fail has
\* the score it computes alone from the group's input record, each failing
\* metric has the default, and every selected metric was run.
InvC2 ==
    \A k \in 1..Len(emitted) :
        \A m \in SelectedNames :
            /\ m \in DOMAIN emitted[k].scores
            /\ <<emitted[k].group, m>> \in executed
            /\ emitted[k].scores[m] =
                   IF m \in emitted[k].failed THEN DefaultScore
                   ELSE Evaluate(m, emitted[k].record)

\* C2 witness: a report in which license failed and size kept its own score
WitC2 ==
    \E k \in 1..Len(emitted) :
        /\ emitted[k].failed = {"license"}
        /\ "size" \in DOMAIN emitted[k].scores
        /\ emitted[k].scores["size"] = Evaluate("size", emitted[k].record)
        /\ emitted[k].scores["size"] # DefaultScore

\* the positions up to n of the groups that have a model, in order
ModelBearing(n) ==
    SelectSeq([i \in 1..n |-> i], LAMBDA i : project_groups[i].model # None)

\* the repository names of the manifest's lines that carry a model, in order
ManifestRepos ==
    LET lines == SelectSeq(manifest,
                           LAMBDA l : ~IsBlank(l) /\ FieldOf(l, 3) # EmptyStr)
    IN  [k \in 1..Len(lines) |-> parse_huggingface_url(FieldOf(lines[k], 3)).repo]

\* C9: the groups are taken one at a time in manifest order; a group without
\* a model is passed over, no metric runs for it and the run goes on; every
\* group with a model is evaluated once and reported once, so the reports are
\* the model-bearing groups in manifest order.
InvC9 ==
    pc \in {"loop", "eval", "done"} =>
        LET reached == IF pc = "eval" THEN idx ELSE idx - 1
            done == ModelBearing(idx - 1)
        IN  /\ evaluated = ModelBearing(reached)
            /\ Len(emitted) = Len(done)
            /\ \A k \in 1..Len(done) :
                   /\ emitted[k].group = done[k]
                   /\ emitted[k].name = project_groups[done[k]].model.repo
            /\ \A e \in executed : \E k \in 1..Len(evaluated) : e[1] = evaluated[k]
            /\ \A m \in DOMAIN status : status[m] # "done" => pc = "eval"
            /\ pc = "done" =>
                   /\ idx = Len(project_groups) + 1
                   /\ [k \in 1..Len(emitted) |-> emitted[k].name] = ManifestRepos

\* C9 witness: the run is over, its first group had no model and was passed
\* over, its second group was evaluated and reported
WitC9 ==
    /\ pc = "done"
    /\ Len(project_groups) = 2
    /\ project_groups[1].model = None
    /\ Len(emitted) = 1
    /\ emitted[1].group = 2
    /\ \E m \in Registry : <<2, m>> \in executed

\* C10: a run ends either complete, with one report per line that carries a
\* model, or early on the manifest or the task list, and then before any
\* metric has run; a run in which a metric has run never ends on such an
\* error, and the run stops nowhere else.
InvC10 ==
    /\ pc = "failed" =>
           /\ error \in {"manifest", "tasklist"}
           /\ executed = {}
           /\ evaluated = <<>>
           /\ emitted = <<>>
    /\ pc = "done" =>
           /\ error = ""
           /\ Len(emitted) = Len(ManifestRepos)
    /\ pc \in {"loop", "eval"} => ENABLED MainLoop

\* C10 witness: the run has ended on the task list after passing over a
\* group without a model, no metric having run
WitC10 ==
    /\ pc = "failed"
    /\ error = "tasklist"
    /\ idx = 2
    /\ executed = {}

(***************************************************************************)
(* Properties of the URL classifier (SpecUrl, SpecDataset)                 *)
(***************************************************************************)
\* the path segments of a link: the path without its leading and trailing
\* slashes, cut at the slashes
Segments(u) == Split(Strip(urlparse(u).path, {"/"}), "/")

NameSamples == SegSamples \ {<<>>}

\* the path /ns/repo
RepoPath(ns, repo) == <<"/">> \o ns \o <<"/">> \o repo

\* the path /ns/repo/tree/rev
TreePath(ns, repo, rev) == RepoPath(ns, repo) \o <<"/", "tree", "/">> \o rev

\* path is head, or head followed by further segments
IsOrExtends(path, head) ==
    \/ path = head
    \/ /\ Len(path) > Len(head)
       /\ TakeFirst(path, Len(head)) = head
       /\ path[Len(head) + 1] = "/"

\* C5: parse_huggingface_url on a path /ns/repo returns (ns, repo, "main"); on
\* a path /ns/repo/tree/<rev>, alone or followed by more segments, it returns
\* (ns, repo, <rev>); on every other path of at least two segments (one whose
\* third segment is not "tree", or that has no fourth) the revision is "main".
InvC5 ==
    op = "parse_huggingface_url" =>
        LET path == urlparse(url).path
            parts == Segments(url)
        IN  /\ \A ns \in NameSamples, repo \in NameSamples :
                   path = RepoPath(ns, repo) =>
                       identity = [ok |-> TRUE, namespace |-> ns, repo |-> repo,
                                   rev |-> MainRev]
            /\ \A ns \in NameSamples, repo \in NameSamples, rev \in NameSamples :
                   IsOrExtends(path, TreePath(ns, repo, rev)) =>
                       identity = [ok |-> TRUE, namespace |-> ns, repo |-> repo,
                                   rev |-> rev]
            /\ (Len(parts) >= 2 /\ ~(Len(parts) >= 4 /\ parts[3] = <<"tree">>)) =>
                   identity.ok /\ identity.rev = MainRev

\* C5 witness: a link /ns/repo/tree/repo/... has been resolved to revision repo
WitC5 ==
    /\ op = "parse_huggingface_url"
    /\ IsOrExtends(urlparse(url).path, TreePath(<<"ns">>, <<"repo">>, <<"repo">>))
    /\ urlparse(url).path # TreePath(<<"ns">>, <<"repo">>, <<"repo">>)
    /\ identity.ok /\ identity.rev = <<"repo">>

\* C6 as stated: the revision is the fifth segment exactly when the fourth
\* segment is "tree" and a fifth exists; otherwise it is "main".
InvC6Original ==
    (op = "parse_huggingface_url" /\ identity.ok) =>
        LET parts == Segments(url)
        IN  identity.rev = IF Len(parts) >= 5 /\ parts[4] = <<"tree">>
                           THEN parts[5] ELSE MainRev

\* C6 amended: the revision is the fourth segment exactly when the third
\* segment is "tree" and a fourth exists; otherwise it is "main" (segments
\* counted from the namespace, the path's outer slashes stripped).
InvC6 ==
    (op = "parse_huggingface_url" /\ identity.ok) =>
        LET parts == Segments(url)
        IN  identity.rev = IF Len(parts) >= 4 /\ parts[3] = <<"tree">>
                           THEN parts[4] ELSE MainRev

\* C6 witness: a link whose third segment is "tree" and whose fourth segment,
\* not "main", became the revision although its fourth segment is not "tree"
WitC6 ==
    /\ op = "parse_huggingface_url"
    /\ identity.ok
    /\ Len(Segments(url)) >= 4
    /\ Segments(url)[3] = <<"tree">>
    /\ Segments(url)[4] # <<"tree">>
    /\ identity.rev = Segments(url)[4]
    /\ identity.rev # MainRev

\* C7 as stated: for a non-empty link parse_huggingface_url either fails, the
\* path having fewer than two segments, or returns a namespace and a
\* repository that are both non-empty.
InvC7 ==
    (op = "parse_huggingface_url" /\ url # EmptyStr) =>
        \/ ~identity.ok /\ Len(Segments(url)) < 2
        \/ identity.ok /\ identity.namespace # EmptyStr /\ identity.repo # EmptyStr

\* the link is on domain d: its network location is d or a subdomain of d
OnDomain(u, d) ==
    LET netloc == urlparse(u).netloc
    IN  \/ netloc = d
        \/ /\ Len(netloc) > Len(d)
           /\ DropFirst(netloc, Len(netloc) - Len(d) - 1) = <<".">> \o d

\* C8 as stated: a link on huggingface.co whose first path segment is
\* "datasets" (followed by a name) yields its last path segment; a link on
\* github.com is returned verbatim; a link on any other domain fails.
InvC8 ==
    op = "parse_dataset_url" =>
        LET parts == Segments(url)
        IN  /\ (OnDomain(url, HuggingFaceDomain) /\ Len(parts) >= 2
                   /\ parts[1] = <<"datasets">>) =>
                   dataset_id = [ok |-> TRUE, value |-> parts[Len(parts)]]
            /\ OnDomain(url, GitHubDomain) =>
                   dataset_id = [ok |-> TRUE, value |-> url]
            /\ (~OnDomain(url, HuggingFaceDomain) /\ ~OnDomain(url, GitHubDomain)) =>
                   ~dataset_id.ok

(***************************************************************************)
(* Properties of calculate_license_score (SpecLicense)                     *)
(***************************************************************************)
\* C11 as stated: whatever the license_info, the verbosity and the behaviour
\* of the log sink, calculate_license_score raises nothing and returns a score
\* in [0.0, 1.0] with a latency >= 0, and the score is the fallback 0.5
\* whenever an error occurred inside the computation.
InvC11 ==
    op = "calculate_license_score" =>
        /\ ~license_score.raised
        /\ license_score.score \in 0..10
        /\ license_score.latency >= 0
        /\ license_score.caught => license_score.score = FallbackScore

\* no keyword of any branch occurs in the text
MatchesNoKeyword(text) == \A k \in Keywords : ~Contains(text, k)

\* C12 as stated: when nothing fails, a license equal (in any letter case) to
\* a keyword of a tier gets the score of that tier, and a license matching no
\* keyword, an empty one or None gets 0.5.
InvC12 ==
    (op = "calculate_license_score" /\ ~license_score.raised
        /\ ~license_score.caught) =>
        IF license_info = None \/ license_info.value = EmptyStr
        THEN license_score.score = UnknownScore
        ELSE LET text == Lower(license_info.value)
             IN  /\ \A i \in DOMAIN Branches :
                        text \in Branches[i].keywords =>
                            license_score.score = Branches[i].score
                 /\ MatchesNoKeyword(text) => license_score.score = UnknownScore

====
